---- MODULE Spec2Model ----
(***************************************************************************)
(* Absenteeism-at-work: the seven-stage cleaning pipeline (features.py,    *)
(* dataset.py), the training loop (modeling/train.py) and the prediction   *)
(* service (api.py, modeling/predict.py) as state machines.                *)
(*                                                                         *)
(* A dataset (pandas DataFrame) is a function from column names to         *)
(* equally long sequences of cells.  A cell is a tuple:                    *)
(*    << >>          the missing marker (float NaN)                        *)
(*    <<n, d>>       the number n/d in lowest terms, d > 0                 *)
(*    <<0, 0, s>>    the text s, a sequence of one-character strings       *)
(* Numbers are exact rationals: every value the pipeline computes on the   *)
(* inputs enumerated here (small integers, quarters, eighths) is exactly   *)
(* representable in binary floating point, so float arithmetic and exact   *)
(* arithmetic agree.                                                       *)
(***************************************************************************)
EXTENDS Integers, Sequences, FiniteSets, TLC

VARIABLES
    raw,       \* cleaning: the dataset this run of the pipeline was given
    df,        \* cleaning: the dataset as the last completed stage left it
    prev,      \* cleaning: the dataset that stage received
    repaired,  \* cleaning: the dataset as stage 4 left it (what stage 5 received)
    stage,     \* cleaning: number of stages completed in this run
    status,    \* cleaning: "running", "done" or "raised"
    err,       \* cleaning: the exception that ended the run, or "none"
    pass,      \* cleaning: 1 = pipeline on a raw dataset, 2 = on its own output
    rawfile,   \* cleaning: the raw CSV file, [exists, count (of reads), data]
    processed, \* cleaning: the processed CSV file, [exists, count (of writes), data]
    tpc,       \* training: position in train.main
    env,       \* training: what the run finds (data file, target column, libraries)
    models,    \* training: the (name, regressor) list, names in evaluation order
    results,   \* training: the results list
    best_model,\* training: best_model, a result of train_model or None
    best_score,\* training: best_score, a float
    files,     \* training: files on disk, name -> content
    mlflow,    \* training: names of the runs logged to MLflow
    model,     \* service: the global model of api.py, NoModel = None
    disk,      \* service: what models/best_model.joblib holds
    apc,       \* service: "init" (imported), "serving" or "crashed"
    request,   \* service: the last call, [endpoint, inputs]
    response,  \* service: the answer to it
    called     \* service: the rows model.predict was called on for it

cleanVars == <<raw, df, prev, repaired, stage, status, err, pass, rawfile, processed>>
trainVars == <<tpc, env, models, results, best_model, best_score, files, mlflow>>
apiVars == <<model, disk, apc, request, response, called>>
vars == <<raw, df, prev, repaired, stage, status, err, pass, rawfile, processed, tpc, env, models, results, best_model, best_score, files, mlflow, model, disk, apc, request, response, called>>

\* Bounds of the model.
MaxRows == 4        \* rows of a dataset whose clipped column is under test
MaxCatRows == 3     \* rows of a dataset whose categorical column is under test
MaxTextRows == 3    \* rows of a dataset whose extraneous column is under test
MaxRmse == 2
MaxBatch == 2       \* records in the body of a batch request

------------------------------------------------------------------------------
(* Rational numbers <<n, d>> kept in lowest terms.                          *)

Abs(x) == IF x < 0 THEN -x ELSE x

RECURSIVE GCD(_, _)
GCD(a, b) == IF b = 0 THEN a ELSE GCD(b, a % b)

Reduce(n, d, g) == [n |-> n \div g, d |-> d \div g]
Rat(n, d) == Reduce(n, d, GCD(Abs(n), d))

RAdd(a, b) == Rat(a.n * b.d + b.n * a.d, a.d * b.d)
RSub(a, b) == Rat(a.n * b.d - b.n * a.d, a.d * b.d)
RMul(a, b) == Rat(a.n * b.n, a.d * b.d)
RLess(a, b) == a.n * b.d < b.n * a.d
RLeq(a, b) == a.n * b.d <= b.n * a.d

\* round(): Python 3 and numpy both round halves to the even neighbour.
RoundHalfEven(r) ==
    IF r.d = 1 THEN r.n
    ELSE LET f == r.n \div r.d
             m == r.n - f * r.d
         IN  IF 2 * m < r.d THEN f
             ELSE IF 2 * m > r.d THEN f + 1
             ELSE IF f % 2 = 0 THEN f ELSE f + 1

------------------------------------------------------------------------------
(* Cells.                                                                   *)

NaN == << >>
NumOf(r) == <<r.n, r.d>>
Num(n, d) == NumOf(Rat(n, d))
Str(s) == <<0, 0, s>>
IntCell(i) == <<i, 1>>
IsNaN(c) == Len(c) = 0
IsNum(c) == Len(c) = 2
IsStr(c) == Len(c) = 3
Numer(c) == c[1]
Denom(c) == c[2]
Text(c) == c[3]
ValOf(c) == [n |-> c[1], d |-> c[2]]
IsIntCell(c) == IsNum(c) /\ Denom(c) = 1

------------------------------------------------------------------------------
(* Text: Python's str.strip(), float() and str() on the literals the model  *)
(* feeds in: optional surrounding blanks, optional sign, decimal digits     *)
(* with an optional fraction, and the words nan and inf.  Exponents,        *)
(* underscores and upper-case spellings are not modelled.                   *)

DigitSeq == <<"0", "1", "2", "3", "4", "5", "6", "7", "8", "9">>
Digits == {DigitSeq[i] : i \in 1..10}
DigitVal(c) == (CHOOSE i \in 1..10 : DigitSeq[i] = c) - 1
Blank == {" "}

RECURSIVE LStrip(_)
LStrip(s) == IF s # <<>> /\ Head(s) \in Blank THEN LStrip(Tail(s)) ELSE s

RECURSIVE RStrip(_)
RStrip(s) ==
    IF s # <<>> /\ s[Len(s)] \in Blank THEN RStrip(SubSeq(s, 1, Len(s) - 1)) ELSE s

strip(s) == RStrip(LStrip(s))

AllDigits(s) == \A i \in 1..Len(s) : s[i] \in Digits

RECURSIVE DigitsVal(_)
DigitsVal(s) ==
    IF s = <<>> THEN 0
    ELSE 10 * DigitsVal(SubSeq(s, 1, Len(s) - 1)) + DigitVal(s[Len(s)])

RECURSIVE Pow10(_)
Pow10(k) == IF k = 0 THEN 1 ELSE 10 * Pow10(k - 1)

Fail == [k |-> "fail", n |-> 0, d |-> 1]
FinOf(r) == [k |-> "fin", n |-> r.n, d |-> r.d]
Fin(n, d) == FinOf(Rat(n, d))

\* digits [ "." digits ], at least one digit in all
ParseUnsigned(s) ==
    LET dots == {i \in 1..Len(s) : s[i] = "."}
    IN  IF dots = {}
        THEN IF s # <<>> /\ AllDigits(s) THEN Fin(DigitsVal(s), 1) ELSE Fail
        ELSE LET p == CHOOSE i \in dots : \A j \in dots : i <= j
                 ip == SubSeq(s, 1, p - 1)
                 fp == SubSeq(s, p + 1, Len(s))
             IN  IF AllDigits(ip) /\ AllDigits(fp) /\ Len(ip) + Len(fp) > 0
                 THEN Fin(DigitsVal(ip) * Pow10(Len(fp)) + DigitsVal(fp), Pow10(Len(fp)))
                 ELSE Fail

\* float(text): the value, "nan", "inf", or "fail" for ValueError
ParseFloat(s) ==
    LET t == strip(s)
        neg == t # <<>> /\ Head(t) = "-"
        signed == t # <<>> /\ Head(t) \in {"-", "+"}
        body == IF signed THEN Tail(t) ELSE t
        u == ParseUnsigned(body)
    IN  IF body = <<"n", "a", "n">> THEN [k |-> "nan", n |-> 0, d |-> 1]
        ELSE IF body = <<"i", "n", "f">> THEN [k |-> "inf", n |-> 0, d |-> 1]
        ELSE IF u.k = "fin" /\ neg THEN Fin(-u.n, u.d)
        ELSE u

RECURSIVE NatChars(_)
NatChars(n) ==
    IF n < 10 THEN <<DigitSeq[n + 1]>>
    ELSE NatChars(n \div 10) \o <<DigitSeq[(n % 10) + 1]>>

RECURSIVE FracChars(_, _)
FracChars(m, d) ==
    IF m = 0 THEN <<>>
    ELSE <<DigitSeq[((10 * m) \div d) + 1]>> \o FracChars((10 * m) % d, d)

\* str(value) of a cell, as astype(str) gives it
ToStr(c) ==
    IF IsStr(c) THEN Text(c)
    ELSE IF IsNaN(c) THEN <<"n", "a", "n">>
    ELSE LET a == Abs(Numer(c))
             sign == IF Numer(c) < 0 THEN <<"-">> ELSE <<>>
         IN  IF Denom(c) = 1 THEN sign \o NatChars(a)
             ELSE sign \o NatChars(a \div Denom(c)) \o <<".">>
                       \o FracChars(a % Denom(c), Denom(c))

------------------------------------------------------------------------------
(* Columns.                                                                 *)

DroppedCols == {"ID", "mixed_type_col"}

ZeroFilledCols == {"Reason for absence", "Month of absence"}
ModeFilledCols == {"Day of the week", "Seasons", "Education",
                   "Disciplinary failure", "Social drinker", "Social smoker"}
CategoricalCols == ZeroFilledCols \cup ModeFilledCols

\* WinsorizeIQR.columns
columns == {"Transportation expense", "Distance from Residence to Work", "Service time",
            "Age", "Work load Average/day", "Hit target", "Son", "Pet", "Weight",
            "Height", "Body mass index", "Absenteeism time in hours"}

\* the declared domain of a categorical column, lo..hi
DomainLo(c) ==
    CASE c \in {"Day of the week"} -> 2
      [] c \in {"Seasons", "Education"} -> 1
      [] OTHER -> 0

DomainHi(c) ==
    CASE c = "Reason for absence" -> 28
      [] c = "Month of absence" -> 12
      [] c = "Day of the week" -> 6
      [] c \in {"Seasons", "Education"} -> 4
      [] OTHER -> 1

Ok(X) == [ok |-> TRUE, df |-> X, err |-> "none"]
Raise(X, e) == [ok |-> FALSE, df |-> X, err |-> e]

\* the dataset of a result, the call having returned
Of(r) == r.df


\* the non-missing cells of a column, in row order
RECURSIVE DropNa(_)
DropNa(col) ==
    IF col = <<>> THEN <<>>
    ELSE IF IsNaN(Head(col)) THEN DropNa(Tail(col))
    ELSE <<Head(col)>> \o DropNa(Tail(col))

RECURSIVE Insert(_, _)
Insert(x, s) ==
    IF s = <<>> THEN <<x>>
    ELSE IF RLeq(ValOf(x), ValOf(Head(s))) THEN <<x>> \o s
    ELSE <<Head(s)>> \o Insert(x, Tail(s))

RECURSIVE SortCells(_)
SortCells(s) == IF s = <<>> THEN <<>> ELSE Insert(Head(s), SortCells(Tail(s)))

------------------------------------------------------------------------------
(* The seven stages (features.py).  Each maps a dataset to Ok(dataset) or   *)
(* to Raise(dataset, exception).                                            *)

\* Stage 1.  X.drop(['ID', 'mixed_type_col'], axis=1): drop() raises KeyError
\* when a label is not a column (errors='raise' is the default).
DropColumns(X) ==
    IF DroppedCols \subseteq DOMAIN X
    THEN Ok([c \in (DOMAIN X) \ DroppedCols |-> X[c]])
    ELSE Raise(X, "KeyError")

\* select_dtypes(include='object'): a column holding text is an object column
IsObjectColumn(col) == \E i \in 1..Len(col) : IsStr(col[i])

\* Stage 2.  Object columns: astype(str).str.strip(); others untouched.
StripObjectColumns(X) ==
    Ok([c \in DOMAIN X |->
          IF IsObjectColumn(X[c])
          THEN [i \in 1..Len(X[c]) |-> Str(strip(ToStr(X[c][i])))]
          ELSE X[c]])

\* float(val)
ToFloat(val) == IF IsNum(val) THEN FinOf(ValOf(val)) ELSE ParseFloat(Text(val))

\* safe_convert with int() in place of round(): the fraction is cut off
truncating_convert(val) ==
    IF IsNaN(val) THEN NaN
    ELSE IF ToFloat(val).k # "fin" THEN NaN
    ELSE IF ToFloat(val).n >= 0 THEN IntCell(ToFloat(val).n \div ToFloat(val).d)
    ELSE IntCell(-((-ToFloat(val).n) \div ToFloat(val).d))

\* round(float(val)) if not pd.isnull(val) else np.nan; except: np.nan.
\* float() raises ValueError on text that is no number, round() raises on
\* nan (ValueError) and inf (OverflowError); the bare except turns all
\* three into np.nan.
safe_convert(val) ==
    IF IsNaN(val) THEN NaN
    ELSE LET f == ToFloat(val)
         IN  IF f.k = "fin" THEN IntCell(RoundHalfEven(f)) ELSE NaN

\* Stage 3.  Every column, every cell.
SafeRoundToInt(X) ==
    Ok([c \in DOMAIN X |-> [i \in 1..Len(X[c]) |-> safe_convert(X[c][i])]])

\* x in range(lo, hi + 1) (and x in [0, 1]): an integer value in the domain;
\* NaN is in no range.
InDomain(x, c) == IsIntCell(x) /\ DomainLo(c) <= Numer(x) /\ Numer(x) <= DomainHi(c)

Count(col, v) == Cardinality({i \in 1..Len(col) : col[i] = v})

MostFrequent(col, vals) == {v \in vals : \A w \in vals : Count(col, w) <= Count(col, v)}
Smallest(top) == CHOOSE v \in top : \A w \in top : RLeq(ValOf(v), ValOf(w))

\* the most frequent value that comes first in row order
ModeFirstSeen(col) ==
    col[CHOOSE i \in 1..Len(col) :
          /\ ~IsNaN(col[i])
          /\ \A j \in 1..Len(col) : IsNaN(col[j]) \/ Count(col, col[j]) <= Count(col, col[i])
          /\ \A j \in 1..(i - 1) : IsNaN(col[j]) \/ Count(col, col[j]) < Count(col, col[i])]

\* Series.mode()[0]: mode() lists the most frequent non-missing values in
\* ascending order, so [0] is the smallest of them
ModeFirst(col) ==
    Smallest(MostFrequent(col, {col[i] : i \in {j \in 1..Len(col) : ~IsNaN(col[j])}}))

\* df[col].mode()[0] cannot be taken when the column has no non-missing value
ModeIsEmpty(col) == \A i \in 1..Len(col) : IsNaN(col[i])

\* the value an out-of-domain cell of column c is replaced by: 0 for the
\* first two columns, df[c].mode()[0] for the other six.  df[c] is read
\* while apply() runs, before the result is assigned: it is the column as
\* the stage received it.
Replacement(col, c) ==
    IF c \in ZeroFilledCols THEN IntCell(0) ELSE ModeFirst(col)

ReplaceInvalid(col, c, value) ==
    [i \in 1..Len(col) |-> IF InDomain(col[i], c) THEN col[i] ELSE value]

FixColumn(col, c) ==
    IF \A i \in 1..Len(col) : InDomain(col[i], c) THEN col
    ELSE ReplaceInvalid(col, c, Replacement(col, c))

\* the lambda reaches mode()[0] only for an out-of-domain cell
FixRaises(col, c) ==
    /\ c \in ModeFilledCols
    /\ \E i \in 1..Len(col) : ~InDomain(col[i], c)
    /\ ModeIsEmpty(col)

\* Stage 4.  df[c] raises KeyError when a categorical column is absent.
FixInvalidValues(X) ==
    IF ~(CategoricalCols \subseteq DOMAIN X) THEN Raise(X, "KeyError")
    ELSE IF \E c \in CategoricalCols : FixRaises(X[c], c) THEN Raise(X, "KeyError")
    ELSE Ok([c \in DOMAIN X |-> IF c \in CategoricalCols THEN FixColumn(X[c], c) ELSE X[c]])

\* linear interpolation in the sorted values s at position num * (m - 1) / 4
Interpolate(s, lo, fr) ==
    IF fr.n = 0 THEN s[lo + 1]
    ELSE NumOf(RAdd(ValOf(s[lo + 1]), RMul(RSub(ValOf(s[lo + 2]), ValOf(s[lo + 1])), fr)))

QuantileSorted(s, num) ==
    IF Len(s) = 0 THEN NaN
    ELSE Interpolate(s, (num * (Len(s) - 1)) \div 4, Rat((num * (Len(s) - 1)) % 4, 4))

\* Series.quantile(num/4): over the non-missing values, NaN when there is none
Quantile(col, num) == QuantileSorted(SortCells(DropNa(col)), num)

\* lower = Q1 - 1.5 * IQR, upper = Q3 + 1.5 * IQR, with IQR = Q3 - Q1
LowerOf(Q1, Q3) ==
    IF IsNaN(Q1) THEN NaN
    ELSE NumOf(RSub(ValOf(Q1), RMul(Rat(3, 2), RSub(ValOf(Q3), ValOf(Q1)))))

UpperOf(Q1, Q3) ==
    IF IsNaN(Q1) THEN NaN
    ELSE NumOf(RAdd(ValOf(Q3), RMul(Rat(3, 2), RSub(ValOf(Q3), ValOf(Q1)))))

\* the two fences of the sorted non-missing values s
FencesSorted(s) ==
    [lower |-> LowerOf(QuantileSorted(s, 1), QuantileSorted(s, 3)),
     upper |-> UpperOf(QuantileSorted(s, 1), QuantileSorted(s, 3))]

Fences(col) == FencesSorted(SortCells(DropNa(col)))
LowerFence(col) == Fences(col).lower
UpperFence(col) == Fences(col).upper

\* clip with the upper threshold forgotten
clip_lower_only(x, lower, upper) ==
    IF IsNaN(x) \/ IsNaN(lower) THEN x
    ELSE IF RLess(ValOf(x), ValOf(lower)) THEN lower
    ELSE x

\* Series.clip(lower, upper): a missing cell stays missing, a missing
\* threshold clips nothing
clip(x, lower, upper) ==
    IF IsNaN(x) \/ IsNaN(lower) THEN x
    ELSE IF RLess(ValOf(x), ValOf(lower)) THEN lower
    ELSE IF RLess(ValOf(upper), ValOf(x)) THEN upper
    ELSE x

ClipColumn(col, lower, upper) == [i \in 1..Len(col) |-> clip(col[i], lower, upper)]

ClipBetween(col, f) == ClipColumn(col, f.lower, f.upper)

WinsorizeColumn(col) == ClipBetween(col, Fences(col))

\* Stage 5.  The twelve columns of self.columns; df[col] raises KeyError
\* when one is absent.
WinsorizeIQR(X) ==
    IF ~(columns \subseteq DOMAIN X) THEN Raise(X, "KeyError")
    ELSE Ok([c \in DOMAIN X |-> IF c \in columns THEN WinsorizeColumn(X[c]) ELSE X[c]])

\* the median with the lower middle value taken when the count is even
MedianLower(s, m) == IF m = 0 THEN NaN ELSE s[(m + 1) \div 2]

MedianSorted(s, m) ==
    IF m = 0 THEN NaN
    ELSE IF m % 2 = 1 THEN s[(m + 1) \div 2]
    ELSE NumOf(RMul(Rat(1, 2), RAdd(ValOf(s[m \div 2]), ValOf(s[(m \div 2) + 1]))))

\* Series.median(): middle of the sorted non-missing values, NaN when none
MedianOf(s) == MedianSorted(s, Len(s))
Median(col) == MedianOf(SortCells(DropNa(col)))

FillWith(col, median) == [i \in 1..Len(col) |-> IF IsNaN(col[i]) THEN median ELSE col[i]]

FillColumn(col) == FillWith(col, Median(col))

\* Stage 6.  X.fillna(X.median(numeric_only=True)): object columns have no
\* median and are left alone.
FillNaWithMedian(X) ==
    Ok([c \in DOMAIN X |-> IF IsObjectColumn(X[c]) THEN X[c] ELSE FillColumn(X[c])])

HasMissing(X) == \E c \in DOMAIN X : \E i \in 1..Len(X[c]) : ~IsNum(X[c][i])

\* stage 7 without astype(int): X.round(0) alone keeps a missing value
RoundOnly(X) ==
    Ok([c \in DOMAIN X |->
          [i \in 1..Len(X[c]) |->
             IF IsNum(X[c][i]) THEN IntCell(RoundHalfEven(ValOf(X[c][i]))) ELSE X[c][i]]])

\* Stage 7.  X.round(0).astype(int): astype(int) raises ValueError on a
\* missing value.
FinalIntConversion(X) ==
    IF HasMissing(X) THEN Raise(X, "ValueError")
    ELSE Ok([c \in DOMAIN X |->
               [i \in 1..Len(X[c]) |-> IntCell(RoundHalfEven(ValOf(X[c][i])))]])

\* the stages with imputation ahead of clipping
PipelineImputeFirst(k, X) ==
    CASE k = 1 -> DropColumns(X)
      [] k = 2 -> StripObjectColumns(X)
      [] k = 3 -> SafeRoundToInt(X)
      [] k = 4 -> FixInvalidValues(X)
      [] k = 5 -> FillNaWithMedian(X)
      [] k = 6 -> WinsorizeIQR(X)
      [] k = 7 -> FinalIntConversion(X)

\* create_preprocessing_pipeline(): the stages in order
PipelineStep(k, X) ==
    CASE k = 1 -> DropColumns(X)
      [] k = 2 -> StripObjectColumns(X)
      [] k = 3 -> SafeRoundToInt(X)
      [] k = 4 -> FixInvalidValues(X)
      [] k = 5 -> WinsorizeIQR(X)
      [] k = 6 -> FillNaWithMedian(X)
      [] k = 7 -> FinalIntConversion(X)

NStages == 7

------------------------------------------------------------------------------
(* Raw datasets the cleaning runs are started on.                           *)

ExtraCol == "extra_col"
SchemaCols == CategoricalCols \cup columns
RawCols == DroppedCols \cup SchemaCols \cup {ExtraCol}

\* a clean cell for row i of column c
BaseCell(c, i) ==
    IF c = "ID" THEN IntCell(i)
    ELSE IF c = "mixed_type_col" THEN (IF i % 2 = 1 THEN Str(<<"a">>) ELSE IntCell(i))
    ELSE IF c \in CategoricalCols THEN IntCell(DomainLo(c))
    ELSE IntCell(1)

BaseData(n) == [c \in RawCols |-> [i \in 1..n |-> BaseCell(c, i)]]

\* the cells tried in the column under test: text that is no number, the
\* two ends of the domain and the first code above it for a categorical
\* column; text that is no number, a low and a far value for a clipped
\* column; missing, padded, fractional, infinite and negative content for
\* the extraneous column
CellsFor(c) ==
    IF c \in CategoricalCols
    THEN {Str(<<"?">>), IntCell(DomainLo(c)), IntCell(DomainHi(c)), IntCell(DomainHi(c) + 1)}
    ELSE IF c \in columns
    THEN {Str(<<"?">>), IntCell(0), IntCell(10)}
    ELSE {NaN, Str(<<" ", "3", " ">>), Str(<<"2", "5", ".", "7">>), Str(<<"i", "n", "f">>),
          Num(5, 2), Str(<<"-", "1", ".", "5">>)}

RowsFor(c) ==
    IF c \in CategoricalCols THEN MaxCatRows
    ELSE IF c \in columns THEN MaxRows
    ELSE MaxTextRows

\* no dataset yet
NoData == [c \in {} |-> <<>>]

\* a file that does not exist, not read and not written so far
NoFileYet == [exists |-> FALSE, count |-> 0, data |-> NoData]

\* a raw dataset: clean but for one column, or clean and lacking some of
\* the columns stage 1 drops
InitClean ==
    /\ \/ \E c \in SchemaCols \cup {ExtraCol} : \E n \in 1..RowsFor(c) :
            \E cells \in [1..n -> CellsFor(c)] :
               df = [BaseData(n) EXCEPT ![c] = cells]
       \/ \E n \in 1..MaxRows : \E present \in SUBSET DroppedCols :
            df = [c \in RawCols \ (DroppedCols \ present) |-> BaseData(n)[c]]
    /\ raw = df
    /\ prev = df
    /\ repaired = NoData
    /\ stage = 0
    /\ status = "running"
    /\ err = "none"
    /\ pass = 1
    /\ rawfile = NoFileYet
    /\ processed = NoFileYet

\* one stage of Pipeline.fit_transform: the next transformer's transform
Stage(k) ==
    /\ status = "running"
    /\ stage = k - 1
    /\ \E r \in {PipelineStep(k, df)} :
         IF r.ok
         THEN /\ df' = r.df
              /\ prev' = df
              /\ repaired' = IF k = 4 THEN r.df ELSE repaired
              /\ stage' = k
              /\ status' = IF k = NStages THEN "done" ELSE "running"
              /\ err' = err
         ELSE /\ status' = "raised"
              /\ err' = r.err
              /\ UNCHANGED <<df, prev, repaired, stage>>
    /\ UNCHANGED <<raw, pass, rawfile, processed>>

StageDropColumns == Stage(1) /\ UNCHANGED <<trainVars, apiVars>>
StageStripObjectColumns == Stage(2) /\ UNCHANGED <<trainVars, apiVars>>
StageSafeRoundToInt == Stage(3) /\ UNCHANGED <<trainVars, apiVars>>
StageFixInvalidValues == Stage(4) /\ UNCHANGED <<trainVars, apiVars>>
StageWinsorizeIQR == Stage(5) /\ UNCHANGED <<trainVars, apiVars>>
StageFillNaWithMedian == Stage(6) /\ UNCHANGED <<trainVars, apiVars>>
StageFinalIntConversion == Stage(7) /\ UNCHANGED <<trainVars, apiVars>>

\* a second run of the pipeline, on the dataset the first run returned
RunOnOutput ==
    /\ status = "done"
    /\ pass = 1
    /\ raw' = df
    /\ df' = df
    /\ prev' = df
    /\ repaired' = NoData
    /\ stage' = 0
    /\ status' = "running"
    /\ err' = "none"
    /\ pass' = 2
    /\ UNCHANGED <<rawfile, processed>>
    /\ UNCHANGED <<trainVars, apiVars>>

------------------------------------------------------------------------------
(* AbsenteeismCleaner.run (dataset.py): load_data, clean_data, save_data.   *)

\* the columns under test in the raw files of the runs
RunCols == {"Day of the week", "Age", ExtraCol}

\* a file an earlier run or the user put there
FileWith(X) == [exists |-> TRUE, count |-> 0, data |-> X]

\* the processed file of an earlier run
StaleProcessed == FileWith([c \in SchemaCols \cup {ExtraCol} |-> <<BaseCell(c, 1)>>])

\* the raw file is absent, or holds (as pd.read_csv returns it) a dataset
\* clean but for one column, or one lacking some of the columns stage 1 drops
InitRun ==
    /\ \/ rawfile = NoFileYet
       \/ \E c \in RunCols : \E n \in 1..MaxTextRows :
            \E cells \in [1..n -> CellsFor(c)] :
               rawfile = FileWith([BaseData(n) EXCEPT ![c] = cells])
       \/ \E n \in 1..MaxTextRows : \E present \in SUBSET DroppedCols :
            rawfile = FileWith([c \in RawCols \ (DroppedCols \ present) |-> BaseData(n)[c]])
    /\ processed \in {NoFileYet, StaleProcessed}
    /\ raw = NoData
    /\ df = NoData
    /\ prev = NoData
    /\ repaired = NoData
    /\ stage = 0
    /\ status = "start"
    /\ err = "none"
    /\ pass = 1

\* load_data with a default dataset returned when the file is absent
load_data_default(f) ==
    IF f.exists THEN Ok(f.data) ELSE Ok(BaseData(1))

\* load_data(): FileNotFoundError when raw_path does not exist, else
\* pd.read_csv(raw_path)
load_data(f) ==
    IF f.exists THEN Ok(f.data) ELSE Raise(NoData, "FileNotFoundError")

\* save_data(df): df.to_csv(processed_path) creates or replaces the file
save_data(f, X) == [exists |-> TRUE, count |-> f.count + 1, data |-> X]

\* run(): df_raw = self.load_data()
RunLoad ==
    /\ status = "start"
    /\ IF load_data(rawfile).ok
       THEN /\ df' = Of(load_data(rawfile))
            /\ raw' = Of(load_data(rawfile))
            /\ prev' = Of(load_data(rawfile))
            /\ rawfile' = [rawfile EXCEPT !.count = @ + 1]
            /\ status' = "running"
            /\ err' = err
       ELSE /\ status' = "raised"
            /\ err' = load_data(rawfile).err
            /\ UNCHANGED <<df, raw, prev, rawfile>>
    /\ UNCHANGED <<repaired, stage, pass, processed>>
    /\ UNCHANGED <<trainVars, apiVars>>

\* run(): self.save_data(df_clean); return df_clean
RunSave ==
    /\ status = "done"
    /\ rawfile.count > 0
    /\ processed' = save_data(processed, df)
    /\ status' = "returned"
    /\ UNCHANGED <<raw, df, prev, repaired, stage, err, pass, rawfile>>
    /\ UNCHANGED <<trainVars, apiVars>>

------------------------------------------------------------------------------
(* The training run (modeling/train.py, main).                              *)

\* floats: float('inf') and the finite metric values 0..MaxRmse
Inf == [inf |-> TRUE, v |-> 0]
Finite(v) == [inf |-> FALSE, v |-> v]
FloatLess(a, b) == ~a.inf /\ (b.inf \/ a.v < b.v)

\* file contents: a fitted pipeline, the metrics report, or nothing
Absent == [kind |-> "absent", name |-> "", run |-> 0, rmse |-> 0, report |-> <<>>]
Pipeline(name, run, rmse) ==
    [kind |-> "pipeline", name |-> name, run |-> run, rmse |-> rmse, report |-> <<>>]
MetricsReport(rs) ==
    [kind |-> "metrics", name |-> "", run |-> 1, rmse |-> 0,
     report |-> [i \in 1..Len(rs) |-> <<rs[i].name, rs[i].test_rmse>>]]

ModelNames == <<"RandomForest", "LightGBM", "CatBoost">>

\* model_result['name'].lower().replace(' ', '_') + "_model.joblib" in MODELS_DIR
ModelPath(name) ==
    CASE name = "RandomForest" -> "models/randomforest_model.joblib"
      [] name = "LightGBM" -> "models/lightgbm_model.joblib"
      [] name = "CatBoost" -> "models/catboost_model.joblib"

BestModelPath == "models/best_model.joblib"
MetricsPath == "reports/metrics/training_metrics.json"
Paths == {ModelPath(ModelNames[i]) : i \in 1..3} \cup {BestModelPath, MetricsPath}

\* a result of train_model; None is the value best_model starts with
None == [name |-> "None", test_rmse |-> Inf, pipeline |-> Absent]
Result(name, rmse) ==
    [name |-> name, test_rmse |-> Finite(rmse), pipeline |-> Pipeline(name, 1, rmse)]

\* what an earlier run left on disk
StaleFiles ==
    [p \in Paths |->
       IF p = MetricsPath THEN [MetricsReport(<<>>) EXCEPT !.run = 0]
       ELSE Pipeline("RandomForest", 0, 0)]

InitTrain ==
    /\ tpc = "start"
    /\ env \in [dataExists : BOOLEAN, targetPresent : BOOLEAN,
                LIGHTGBM_AVAILABLE : BOOLEAN, CATBOOST_AVAILABLE : BOOLEAN]
    /\ models = <<>>
    /\ results = <<>>
    /\ best_model = None
    /\ best_score = Inf
    /\ files \in {[p \in Paths |-> Absent], StaleFiles}
    /\ mlflow = <<>>

\* ensure_directories(); df = load_data()
LoadData ==
    /\ tpc = "start"
    /\ tpc' = IF env.dataExists THEN "loaded" ELSE "FileNotFoundError"
    /\ UNCHANGED <<env, models, results, best_model, best_score, files, mlflow>>
    /\ UNCHANGED <<cleanVars, apiVars>>

\* prepare_features with the test on the target column left out
prepare_unchecked(e) == "prepared"

\* prepare_features(df): raises ValueError when target_col is no column of df
prepare_features(e) == IF e.targetPresent THEN "prepared" ELSE "ValueError"

\* X, y, cat_cols, num_cols = prepare_features(df)
PrepareFeatures ==
    /\ tpc = "loaded"
    /\ tpc' = prepare_features(env)
    /\ UNCHANGED <<env, models, results, best_model, best_score, files, mlflow>>
    /\ UNCHANGED <<cleanVars, apiVars>>

\* the models list with both optional families appended unconditionally
ModelListAll(e) == <<"RandomForest", "LightGBM", "CatBoost">>

\* LGBMRegressor and CatBoostRegressor are names of the module only when
\* their import succeeded; RandomForestRegressor always is
Imported(name, e) ==
    CASE name = "LightGBM" -> e.LIGHTGBM_AVAILABLE
      [] name = "CatBoost" -> e.CATBOOST_AVAILABLE
      [] OTHER -> TRUE

\* the models list: RandomForest, then the optional families that imported
ModelList(e) ==
    <<"RandomForest">>
      \o (IF e.LIGHTGBM_AVAILABLE THEN <<"LightGBM">> ELSE <<>>)
      \o (IF e.CATBOOST_AVAILABLE THEN <<"CatBoost">> ELSE <<>>)

\* train_test_split, create_preprocessor, models = [...], results = [],
\* best_model = None, best_score = float('inf')
\* (constructing a regressor whose import failed raises NameError)
InitModels ==
    /\ tpc = "prepared"
    /\ IF \A i \in 1..Len(ModelList(env)) : Imported(ModelList(env)[i], env)
       THEN tpc' = "loop" /\ models' = ModelList(env)
       ELSE tpc' = "NameError" /\ models' = models
    /\ results' = <<>>
    /\ best_model' = None
    /\ best_score' = Inf
    /\ UNCHANGED <<env, files, mlflow>>
    /\ UNCHANGED <<cleanVars, apiVars>>

\* the comparison with <= in place of <
IsBetterOrEqual(result, score) ==
    FloatLess(result.test_rmse, score) \/ result.test_rmse = score

\* if result['metrics']['test_rmse'] < best_score
IsBetter(result, score) == FloatLess(result.test_rmse, score)

\* save_model writing the stable name as well
save_model_and_best(fs, result) ==
    [fs EXCEPT ![ModelPath(result.name)] = result.pipeline, ![BestModelPath] = result.pipeline]

\* save_model(result): joblib.dump(model_result['pipeline'], model_path)
save_model(fs, result) == [fs EXCEPT ![ModelPath(result.name)] = result.pipeline]

\* one pass of the for loop: train_model, results.append, best tracking,
\* save_model, log_to_mlflow (whose own failure is caught and printed)
TrainModel ==
    /\ tpc = "loop"
    /\ Len(results) < Len(models)
    /\ LET name == models[Len(results) + 1]
       IN  \/ \E rmse \in 0..MaxRmse, logged \in BOOLEAN :
                LET result == Result(name, rmse)
                IN  /\ results' = Append(results, result)
                    /\ IF IsBetter(result, best_score)
                       THEN best_score' = result.test_rmse /\ best_model' = result
                       ELSE UNCHANGED <<best_score, best_model>>
                    /\ files' = save_model(files, result)
                    /\ mlflow' = IF logged THEN Append(mlflow, name) ELSE mlflow
                    /\ tpc' = tpc
           \/ \* full_pipeline.fit raises
              /\ tpc' = "FitError"
              /\ UNCHANGED <<results, best_score, best_model, files, mlflow>>
    /\ UNCHANGED <<env, models>>
    /\ UNCHANGED <<cleanVars, apiVars>>

\* save_metrics(results)
SaveMetrics ==
    /\ tpc = "loop"
    /\ Len(results) = Len(models)
    /\ files' = [files EXCEPT ![MetricsPath] = MetricsReport(results)]
    /\ tpc' = "summary"
    /\ UNCHANGED <<env, models, results, best_model, best_score, mlflow>>
    /\ UNCHANGED <<cleanVars, apiVars>>

\* the loop's last result written in place of best_model
LastPipeline(best, rs) == rs[Len(rs)].pipeline

\* the pipeline written under the stable name: best_model['pipeline']
BestPipeline(best, rs) == best.pipeline

\* the summary prints, then joblib.dump(best_model['pipeline'], best_model_path)
SaveBest ==
    /\ tpc = "summary"
    /\ files' = [files EXCEPT ![BestModelPath] = BestPipeline(best_model, results)]
    /\ tpc' = "done"
    /\ UNCHANGED <<env, models, results, best_model, best_score, mlflow>>
    /\ UNCHANGED <<cleanVars, apiVars>>

------------------------------------------------------------------------------
(* The prediction service (api.py) and the prediction module               *)
(* (modeling/predict.py).                                                   *)

\* AbsenteeismInput: the fields declared int
IntFields == {"reason_for_absence", "month_of_absence", "day_of_the_week", "seasons",
              "age", "hit_target", "disciplinary_failure", "education", "son",
              "social_drinker", "social_smoker", "pet"}

\* AbsenteeismInput: the fields declared float
FloatFields == {"transportation_expense", "distance_from_residence_to_work", "service_time",
                "work_load_average_per_day", "weight", "height", "body_mass_index"}

Fields == IntFields \cup FloatFields

\* Field(..., ge=...)
ge(f) ==
    CASE f = "day_of_the_week" -> 2
      [] f \in {"seasons", "education"} -> 1
      [] OTHER -> 0

\* the fields declared with le=...
BoundedAbove == {"reason_for_absence", "month_of_absence", "day_of_the_week", "seasons",
                 "hit_target", "disciplinary_failure", "education", "social_drinker",
                 "social_smoker"}

\* Field(..., le=...)
le(f) ==
    CASE f = "reason_for_absence" -> 28
      [] f = "month_of_absence" -> 12
      [] f = "day_of_the_week" -> 6
      [] f \in {"seasons", "education"} -> 4
      [] f = "hit_target" -> 100
      [] OTHER -> 1

\* the validation of one field with its upper limit ignored
FieldLowerOnly(f, v) ==
    /\ IsNum(v)
    /\ f \in IntFields => Denom(v) = 1
    /\ RLeq(Rat(ge(f), 1), ValOf(v))

\* the validation of one field of AbsenteeismInput: a number, integral for
\* an int field, not below ge and not above le
FieldValid(f, v) ==
    /\ IsNum(v)
    /\ f \in IntFields => Denom(v) = 1
    /\ RLeq(Rat(ge(f), 1), ValOf(v))
    /\ f \in BoundedAbove => RLeq(ValOf(v), Rat(le(f), 1))

\* the validation of a request body before the handler is called: every
\* field of the record
RecordValid(input_data) == \A f \in Fields : FieldValid(f, input_data[f])

\* List[AbsenteeismInput]: every record of the list
BatchValid(inputs) == \A i \in 1..Len(inputs) : RecordValid(inputs[i])

\* the record of Config.json_schema_extra["example"]
Example ==
    [f \in Fields |->
       CASE f = "reason_for_absence" -> IntCell(23)
         [] f = "month_of_absence" -> IntCell(7)
         [] f = "day_of_the_week" -> IntCell(3)
         [] f = "seasons" -> IntCell(1)
         [] f = "transportation_expense" -> IntCell(289)
         [] f = "distance_from_residence_to_work" -> IntCell(36)
         [] f = "service_time" -> IntCell(13)
         [] f = "age" -> IntCell(33)
         [] f = "work_load_average_per_day" -> IntCell(240)
         [] f = "hit_target" -> IntCell(97)
         [] f = "disciplinary_failure" -> IntCell(0)
         [] f = "education" -> IntCell(1)
         [] f = "son" -> IntCell(2)
         [] f = "social_drinker" -> IntCell(1)
         [] f = "social_smoker" -> IntCell(0)
         [] f = "pet" -> IntCell(1)
         [] f = "weight" -> IntCell(90)
         [] f = "height" -> IntCell(172)
         [] f = "body_mass_index" -> IntCell(30)]

\* input_to_dataframe: the column each field is stored under
ColumnOf(f) ==
    CASE f = "reason_for_absence" -> "Reason for absence"
      [] f = "month_of_absence" -> "Month of absence"
      [] f = "day_of_the_week" -> "Day of the week"
      [] f = "seasons" -> "Seasons"
      [] f = "transportation_expense" -> "Transportation expense"
      [] f = "distance_from_residence_to_work" -> "Distance from Residence to Work"
      [] f = "service_time" -> "Service time"
      [] f = "age" -> "Age"
      [] f = "work_load_average_per_day" -> "Work load Average/day"
      [] f = "hit_target" -> "Hit target"
      [] f = "disciplinary_failure" -> "Disciplinary failure"
      [] f = "education" -> "Education"
      [] f = "son" -> "Son"
      [] f = "social_drinker" -> "Social drinker"
      [] f = "social_smoker" -> "Social smoker"
      [] f = "pet" -> "Pet"
      [] f = "weight" -> "Weight"
      [] f = "height" -> "Height"
      [] f = "body_mass_index" -> "Body mass index"

FeatureColumns == {ColumnOf(f) : f \in Fields}
FieldOfColumn == [c \in FeatureColumns |-> CHOOSE f \in Fields : ColumnOf(f) = c]
FieldOf(c) == FieldOfColumn[c]

\* input_to_dataframe(input_data): a one-row dataset
input_to_dataframe(input_data) ==
    [c \in FeatureColumns |-> <<input_data[FieldOf(c)]>>]

\* pd.concat(dfs, ignore_index=True): the rows of the datasets in order
concat(dfs) == [c \in FeatureColumns |-> [i \in 1..Len(dfs) |-> dfs[i][c][1]]]

NRows(X) == Len(X["Son"])

\* the global model before any load: None
NoModel == [type |-> "NoneType", steps |-> "none", intercept |-> Rat(0, 1), slope |-> 0]

\* a loadable artifact.  steps: "fitted" = Pipeline with a fitted
\* 'preprocessor' step, "no_preprocessor" = Pipeline without that step,
\* "unfitted" = Pipeline whose preprocessor was never fitted, "none" = an
\* estimator without named_steps.  Its predict is row-wise:
\* intercept + slope * Son.
Artifact(type, steps, n, d, slope) ==
    [type |-> type, steps |-> steps, intercept |-> Rat(n, d), slope |-> slope]

Artifacts ==
    {Artifact("Pipeline", "fitted", -1, 1, 1),
     Artifact("Pipeline", "no_preprocessor", 1, 8, 1),
     Artifact("Pipeline", "unfitted", 0, 1, 0),
     Artifact("RandomForestRegressor", "none", 1234, 1000, -1)}

\* a pipeline with an unfitted step raises NotFittedError in predict
CanPredict(m) == m.steps # "unfitted"

\* model.predict(X): one output per row, in row order
ModelPredict(m, X) ==
    [i \in 1..NRows(X) |-> RAdd(m.intercept, RMul(Rat(m.slope, 1), ValOf(X["Son"][i])))]

\* np.minimum in place of np.maximum
minimum(x, y) == IF RLess(y, x) THEN y ELSE x

\* np.maximum(predictions, 0), one element
maximum(x, y) == IF RLess(x, y) THEN y ELSE x

\* max(0, float(prediction[0]))
max(x, y) == IF RLess(x, y) THEN y ELSE x

Zero == Rat(0, 1)

\* round(x, 2): to the nearest hundredth, half to even
round2(x) == Rat(RoundHalfEven(RMul(x, Rat(100, 1))), 100)

\* what models/best_model.joblib holds
NoFile == [state |-> "absent", artifact |-> NoModel]
Corrupt == [state |-> "corrupt", artifact |-> NoModel]
Stored(a) == [state |-> "ok", artifact |-> a]
DiskStates == {NoFile, Corrupt} \cup {Stored(a) : a \in Artifacts}

\* DEFAULT_MODEL.stem if DEFAULT_MODEL.exists() else None
model_version(d) == IF d.state = "absent" THEN "None" ELSE "best_model"

Http(code) == [code |-> code, body |-> <<>>]
Success(body) == [code |-> 200, body |-> body]
Answer(resp, X) == [response |-> resp, called |-> X]

PredictionResponse(hours, d) ==
    [predicted_absenteeism_hours |-> hours, model_version |-> model_version(d)]

\* predict without the test for a loaded model: None.predict raises
\* AttributeError inside the try
predict_unguarded(m, d, input_data) ==
    IF m = NoModel \/ ~CanPredict(m)
    THEN Answer(Http(400), IF m = NoModel THEN <<>> ELSE <<input_to_dataframe(input_data)>>)
    ELSE Answer(Success(PredictionResponse(
                   round2(max(Zero, ModelPredict(m, input_to_dataframe(input_data))[1])), d)),
                <<input_to_dataframe(input_data)>>)

\* POST /predict, the handler (the body has passed validation)
predict(m, d, input_data) ==
    IF m = NoModel THEN Answer(Http(503), <<>>)
    ELSE IF ~CanPredict(m) THEN Answer(Http(400), <<input_to_dataframe(input_data)>>)
    ELSE Answer(Success(PredictionResponse(
                   round2(max(Zero, ModelPredict(m, input_to_dataframe(input_data))[1])), d)),
                <<input_to_dataframe(input_data)>>)

\* an element of the batch answer with round() forgotten
BatchItemUnrounded(pred, d) == PredictionResponse(pred, d)

\* an element of the batch answer: round(float(pred), 2) and the version
BatchItem(pred, d) == PredictionResponse(round2(pred), d)

BatchBody(preds, d) ==
    [predictions |-> [i \in 1..Len(preds) |-> BatchItem(maximum(preds[i], Zero), d)],
     total |-> Len(preds)]

BatchFrame(inputs) == concat([i \in 1..Len(inputs) |-> input_to_dataframe(inputs[i])])

\* POST /predict/batch, the handler (the body has passed validation).
\* pd.concat of an empty list raises ValueError, which the handler turns
\* into a 400.
predict_batch(m, d, inputs) ==
    IF m = NoModel THEN Answer(Http(503), <<>>)
    ELSE IF Len(inputs) = 0 THEN Answer(Http(400), <<>>)
    ELSE IF ~CanPredict(m) THEN Answer(Http(400), <<BatchFrame(inputs)>>)
    ELSE Answer(Success(BatchBody(ModelPredict(m, BatchFrame(inputs)), d)),
                <<BatchFrame(inputs)>>)

\* health reporting "healthy" whatever the model
health_always(m) ==
    Answer(Success([status |-> "healthy", model_loaded |-> m # NoModel]), <<>>)

\* GET /health
health(m) ==
    Answer(Success([status |-> IF m # NoModel THEN "healthy" ELSE "model_not_loaded",
                    model_loaded |-> m # NoModel]), <<>>)

\* prepare_features: categorical_candidates
categorical_cols ==
    <<"Reason for absence", "Month of absence", "Day of the week", "Seasons", "Education",
      "Disciplinary failure", "Social drinker", "Social smoker">>

\* prepare_features: the other feature columns
numeric_cols ==
    <<"Transportation expense", "Distance from Residence to Work", "Service time", "Age",
      "Work load Average/day", "Hit target", "Son", "Pet", "Weight", "Height",
      "Body mass index">>

\* the feature names collected from preprocessor.transformers_; reading
\* transformers_ of an unfitted preprocessor raises AttributeError
Introspect(m) ==
    IF m.steps = "fitted" THEN [raised |-> FALSE, names |-> numeric_cols \o categorical_cols]
    ELSE IF m.steps = "unfitted" THEN [raised |-> TRUE, names |-> <<>>]
    ELSE [raised |-> FALSE, names |-> <<"Unknown - model structure not accessible">>]

ModelInfoResponse(m, names) ==
    [model_path |-> "models/best_model.joblib", model_type |-> m.type, features |-> names]

\* model_info without the try/except around the introspection
model_info_unprotected(m) ==
    IF m = NoModel THEN Answer(Http(503), <<>>)
    ELSE IF Introspect(m).raised THEN Answer(Http(500), <<>>)
    ELSE Answer(Success(ModelInfoResponse(m, Introspect(m).names)), <<>>)

\* GET /info
model_info(m) ==
    IF m = NoModel THEN Answer(Http(503), <<>>)
    ELSE IF Introspect(m).raised
    THEN Answer(Success(ModelInfoResponse(m, <<"Unable to extract feature names">>)), <<>>)
    ELSE Answer(Success(ModelInfoResponse(m, Introspect(m).names)), <<>>)

\* load_model with the global cleared before the file is read
load_model_reset(m, d) ==
    IF d.state = "ok" THEN [raised |-> FALSE, model |-> d.artifact]
    ELSE [raised |-> TRUE, model |-> NoModel]

\* load_model(): raises when the file is absent or joblib.load fails, and
\* then leaves the global model as it was
load_model(m, d) ==
    IF d.state = "ok" THEN [raised |-> FALSE, model |-> d.artifact]
    ELSE [raised |-> TRUE, model |-> m]

\* startup_event without the except clause
startup_uncaught(m, d) ==
    IF d.state = "absent" THEN [raised |-> FALSE, model |-> NoModel]
    ELSE load_model(m, d)

\* startup_event(): the load is tried when the file exists; any exception
\* leaves the global model None
startup_event(m, d) ==
    IF d.state = "absent" THEN [raised |-> FALSE, model |-> NoModel]
    ELSE IF load_model(m, d).raised THEN [raised |-> FALSE, model |-> NoModel]
    ELSE load_model(m, d)

\* modeling/predict.py predict(model, X): np.maximum(model.predict(X), 0);
\* predictions.min() of no predictions raises ValueError
cli_predict(m, X) ==
    IF ~CanPredict(m) \/ NRows(X) = 0 THEN [raised |-> TRUE, predictions |-> <<>>]
    ELSE [raised |-> FALSE,
          predictions |-> [i \in 1..NRows(X) |-> maximum(ModelPredict(m, X)[i], Zero)]]

\* the values tried in a field: around both limits for a field with an
\* upper limit, around the lower limit otherwise
ValuesFor(f) ==
    IF f \in BoundedAbove
    THEN {IntCell(ge(f) - 1), IntCell(ge(f)), IntCell(le(f)), IntCell(le(f) + 1)}
    ELSE IF f \in IntFields THEN {IntCell(-1), IntCell(0), IntCell(5)}
    ELSE {Num(-1, 2), IntCell(0), Num(1, 2)}

\* request bodies of POST /predict: the example with one field changed
SingleRecords == UNION {{[Example EXCEPT ![f] = v] : v \in ValuesFor(f)} : f \in Fields}

\* records of POST /predict/batch bodies: three valid ones the models tell
\* apart and one that fails validation
BatchRecords ==
    {[Example EXCEPT !["son"] = IntCell(k)] : k \in 0..2}
      \cup {[Example EXCEPT !["hit_target"] = IntCell(101)]}

Batches == UNION {[1..n -> BatchRecords] : n \in 0..MaxBatch}

NoRequest == [endpoint |-> "none", inputs |-> <<>>]
Request(endpoint, inputs) == [endpoint |-> endpoint, inputs |-> inputs]

\* a call that is no HTTP request: returned or raised
Returned(body) == [code |-> 0, body |-> body]
Raised == [code |-> -1, body |-> <<>>]

\* the module is imported: model = None
InitApi ==
    /\ model = NoModel
    /\ disk \in DiskStates
    /\ apc = "init"
    /\ request = NoRequest
    /\ response = Returned(<<>>)
    /\ called = <<>>

\* @app.on_event("startup")
Startup ==
    /\ apc = "init"
    /\ model' = startup_event(model, disk).model
    /\ apc' = IF startup_event(model, disk).raised THEN "crashed" ELSE "serving"
    /\ request' = Request("startup", <<>>)
    /\ response' = IF startup_event(model, disk).raised THEN Raised ELSE Returned(<<>>)
    /\ called' = <<>>
    /\ UNCHANGED disk
    /\ UNCHANGED <<cleanVars, trainVars>>

\* a call of load_model() by the embedding program
LoadModelCall ==
    /\ apc \in {"init", "serving"}
    /\ model' = load_model(model, disk).model
    /\ request' = Request("load_model", <<>>)
    /\ response' = IF load_model(model, disk).raised THEN Raised ELSE Returned(<<>>)
    /\ called' = <<>>
    /\ UNCHANGED <<disk, apc>>
    /\ UNCHANGED <<cleanVars, trainVars>>

\* models/best_model.joblib is written (train.main), damaged or removed;
\* once the service runs only its removal is followed
ArtifactReplaced ==
    /\ apc \in {"init", "serving"}
    /\ \E d \in DiskStates \ {disk} :
          /\ apc = "serving" => d = NoFile
          /\ disk' = d
    /\ request' = Request("replace", <<>>)
    /\ response' = Returned(<<>>)
    /\ called' = <<>>
    /\ UNCHANGED <<model, apc>>
    /\ UNCHANGED <<cleanVars, trainVars>>

\* the service answers one request
Serve(req, answer) ==
    /\ apc = "serving"
    /\ request' = req
    /\ response' = answer.response
    /\ called' = answer.called
    /\ UNCHANGED <<model, disk, apc>>
    /\ UNCHANGED <<cleanVars, trainVars>>

GetHealth == Serve(Request("health", <<>>), health(model))

GetInfo == Serve(Request("info", <<>>), model_info(model))

\* POST /predict: the body is validated against AbsenteeismInput (422 when
\* it fails), then the handler runs
PostPredict ==
    \E input_data \in SingleRecords :
        Serve(Request("predict", <<input_data>>),
              IF RecordValid(input_data) THEN predict(model, disk, input_data)
              ELSE Answer(Http(422), <<>>))

\* POST /predict/batch: likewise, against BatchPredictionRequest
PostPredictBatch ==
    \E inputs \in Batches :
        Serve(Request("predict_batch", inputs),
              IF BatchValid(inputs) THEN predict_batch(model, disk, inputs)
              ELSE Answer(Http(422), <<>>))

\* modeling/predict.py run from the command line, the service not
\* involved: predict(model, X) on the artifact loaded from disk and the
\* rows of a dataset
ModulePredict ==
    /\ apc = "init"
    /\ disk.state = "ok"
    /\ \E inputs \in {b \in Batches : BatchValid(b)} :
          /\ request' = Request("modeling.predict", inputs)
          /\ response' = IF cli_predict(disk.artifact, BatchFrame(inputs)).raised THEN Raised
                         ELSE Returned(cli_predict(disk.artifact, BatchFrame(inputs)).predictions)
          /\ called' = <<BatchFrame(inputs)>>
    /\ UNCHANGED <<model, disk, apc>>
    /\ UNCHANGED <<cleanVars, trainVars>>

------------------------------------------------------------------------------
(* Specifications.                                                          *)

IdleTrain ==
    /\ tpc = "idle"
    /\ env = [dataExists |-> TRUE, targetPresent |-> TRUE,
              LIGHTGBM_AVAILABLE |-> TRUE, CATBOOST_AVAILABLE |-> TRUE]
    /\ models = <<>>
    /\ results = <<>>
    /\ best_model = None
    /\ best_score = Inf
    /\ files = [p \in Paths |-> Absent]
    /\ mlflow = <<>>

IdleClean ==
    /\ raw = NoData
    /\ df = NoData
    /\ prev = NoData
    /\ repaired = NoData
    /\ stage = 0
    /\ status = "idle"
    /\ err = "none"
    /\ pass = 1
    /\ rawfile = NoFileYet
    /\ processed = NoFileYet

IdleApi ==
    /\ model = NoModel
    /\ disk = NoFile
    /\ apc = "idle"
    /\ request = NoRequest
    /\ response = Returned(<<>>)
    /\ called = <<>>

CleanInit == InitClean /\ IdleTrain /\ IdleApi

CleanNext ==
    \/ StageDropColumns
    \/ StageStripObjectColumns
    \/ StageSafeRoundToInt
    \/ StageFixInvalidValues
    \/ StageWinsorizeIQR
    \/ StageFillNaWithMedian
    \/ StageFinalIntConversion
    \/ RunOnOutput

SpecClean == CleanInit /\ [][CleanNext]_vars

RunInit == InitRun /\ IdleTrain /\ IdleApi

RunNext ==
    \/ RunLoad
    \/ StageDropColumns
    \/ StageStripObjectColumns
    \/ StageSafeRoundToInt
    \/ StageFixInvalidValues
    \/ StageWinsorizeIQR
    \/ StageFillNaWithMedian
    \/ StageFinalIntConversion
    \/ RunSave

SpecRun == RunInit /\ [][RunNext]_vars

TrainInit == InitTrain /\ IdleClean /\ IdleApi

TrainNext ==
    \/ LoadData
    \/ PrepareFeatures
    \/ InitModels
    \/ TrainModel
    \/ SaveMetrics
    \/ SaveBest

SpecTrain == TrainInit /\ [][TrainNext]_vars

ApiInit == InitApi /\ IdleClean /\ IdleTrain

ApiNext ==
    \/ Startup
    \/ LoadModelCall
    \/ ArtifactReplaced
    \/ GetHealth
    \/ GetInfo
    \/ PostPredict
    \/ PostPredictBatch
    \/ ModulePredict

SpecApi == ApiInit /\ [][ApiNext]_vars

------------------------------------------------------------------------------
(* Properties of the cleaning pipeline, checked under SpecClean.            *)

\* the declared domain of a categorical column (data model)
DeclaredDomain(c) == DomainLo(c)..DomainHi(c)
IsDeclared(x, c) == IsNum(x) /\ Denom(x) = 1 /\ Numer(x) \in DeclaredDomain(c)

Rows(X, c) == 1..Len(X[c])
HasRawSchema(X) == DroppedCols \cup SchemaCols \subseteq DOMAIN X

\* C1: every value of each categorical column of a dataset the pipeline
\* returns lies in the column's declared domain.
C1_CategoricalInDomain ==
    status = "done" =>
        \A c \in CategoricalCols : \A i \in Rows(df, c) : IsDeclared(df[c][i], c)

\* the most frequent in-domain values of a column
InDomainModes(col, c) ==
    LET valid == {v \in {col[i] : i \in 1..Len(col)} : IsDeclared(v, c)}
    IN  {v \in valid : \A w \in valid : Count(col, w) <= Count(col, v)}

\* C2: stage 4 replaces every out-of-domain value of a categorical column
\* with the most frequent in-domain value of the batch and leaves every
\* in-domain value unchanged.
C2_ReplacedByInDomainMode ==
    (stage = 4 /\ pass = 1) =>
        \A c \in CategoricalCols : \A i \in Rows(df, c) :
            IF IsDeclared(prev[c][i], c)
            THEN df[c][i] = prev[c][i]
            ELSE df[c][i] \in InDomainModes(prev[c], c)

Within(x, lower, upper) == RLeq(ValOf(lower), ValOf(x)) /\ RLeq(ValOf(x), ValOf(upper))

\* C3 as stated: in a dataset the pipeline returns, no value of a clipped
\* column lies outside [Q1 - 1.5 IQR, Q3 + 1.5 IQR] computed on that same
\* returned column.
C3_WithinOwnFences ==
    status = "done" =>
        \A c \in columns :
            LET f == Fences(df[c])
            IN  \A i \in Rows(df, c) : Within(df[c][i], f.lower, f.upper)

\* C3 amended: in a dataset the pipeline returns, every value of a clipped
\* column lies between the two fences Q1 - 1.5 IQR and Q3 + 1.5 IQR, each
\* rounded half-to-even to an integer, where Q1, Q3 and IQR are those of the
\* non-missing values of the column as stage 5 received it.
C3_WithinRoundedFences ==
    status = "done" =>
        \A c \in columns :
            LET f == Fences(repaired[c])
            IN  \A i \in Rows(df, c) :
                   /\ RoundHalfEven(ValOf(f.lower)) <= Numer(df[c][i])
                   /\ Numer(df[c][i]) <= RoundHalfEven(ValOf(f.upper))

\* a returned dataset in which an outlier was clipped to a fractional fence
\* and then rounded
C3_Witness ==
    /\ status = "done"
    /\ \E c \in columns : \E i \in Rows(df, c) :
          /\ repaired[c][i] = IntCell(10)
          /\ UpperFence(repaired[c]) = Num(25, 4)
          /\ df[c][i] = IntCell(6)

\* C4: the pipeline applied to a dataset it returned completes and returns
\* that dataset unchanged.
C4_Idempotent ==
    pass = 2 => /\ status # "raised"
                /\ status = "done" => df = raw

\* C5: in a dataset the pipeline returns no cell is missing and every cell
\* is an integer.
C5_NoMissingAllInteger ==
    status = "done" =>
        \A c \in DOMAIN df : \A i \in Rows(df, c) : IsNum(df[c][i]) /\ Denom(df[c][i]) = 1

\* a returned dataset whose raw column held a missing cell and text that is
\* no number
C5_Witness ==
    /\ status = "done"
    /\ \E c \in DOMAIN df :
          /\ \E i \in Rows(raw, c) : IsNaN(raw[c][i])
          /\ \E i \in Rows(raw, c) : IsStr(raw[c][i]) /\ ParseFloat(Text(raw[c][i])).k # "fin"

\* r is an integer nearest to the number f
IsNearestInteger(r, f) ==
    /\ IsNum(r) /\ Denom(r) = 1
    /\ 2 * Abs(Numer(r) * f.d - f.n) <= f.d

\* C6: stage 3 never raises; a cell that parses as a (finite) number becomes
\* an integer nearest to it, any other cell becomes the missing marker, and
\* the columns and rows are those it received.
C6_SafeRounding ==
    /\ ~(status = "raised" /\ stage = 2)
    /\ stage = 3 =>
         /\ DOMAIN df = DOMAIN prev
         /\ \A c \in DOMAIN df :
              /\ Len(df[c]) = Len(prev[c])
              /\ \A i \in Rows(df, c) :
                   IF ~IsNaN(prev[c][i]) /\ ToFloat(prev[c][i]).k = "fin"
                   THEN IsNearestInteger(df[c][i], ToFloat(prev[c][i]))
                   ELSE df[c][i] = NaN

\* stage 3 has turned "25.7" into 26 and text that is no number into the
\* missing marker
C6_Witness ==
    /\ stage = 3
    /\ \E c \in DOMAIN df : \E i, j \in Rows(df, c) :
          /\ prev[c][i] = Str(<<"2", "5", ".", "7">>) /\ df[c][i] = IntCell(26)
          /\ prev[c][j] = Str(<<"i", "n", "f">>) /\ df[c][j] = NaN

\* C7: stage 1 applied to a dataset lacking 'ID' or 'mixed_type_col' does
\* not raise and returns the other columns unchanged.
C7_DropToleratesAbsence ==
    ~(DroppedCols \subseteq DOMAIN raw) =>
        /\ ~(status = "raised" /\ stage = 0)
        /\ stage = 1 => df = [c \in (DOMAIN raw) \ DroppedCols |-> raw[c]]

\* C8: on a raw dataset that has all schema columns the pipeline never
\* raises, whatever cells hold text that is no number or are missing.
C8_ParseErrorsNeverFatal ==
    (pass = 1 /\ HasRawSchema(raw)) => status # "raised"

------------------------------------------------------------------------------
(* Properties of the training run, checked under SpecTrain.                 *)

LoopDone == tpc \in {"summary", "done"}

IsLowest(rs, i) == \A j \in 1..Len(rs) : ~FloatLess(rs[j].test_rmse, rs[i].test_rmse)
FirstLowest(rs) == CHOOSE i \in 1..Len(rs) : IsLowest(rs, i) /\ \A j \in 1..(i - 1) : ~IsLowest(rs, j)

\* C9: after the loop the model selected as best has a test RMSE no higher
\* than any other model's, and among the models with the lowest test RMSE
\* it is the earliest in evaluation order.
C9_BestIsFirstLowest ==
    LoopDone =>
        /\ Len(results) = Len(models)
        /\ Len(results) >= 1
        /\ best_model = results[FirstLowest(results)]
        /\ \A j \in 1..Len(results) : ~FloatLess(results[j].test_rmse, best_model.test_rmse)

\* the loop has ended with two models tied for the lowest test RMSE
C9_Witness ==
    /\ LoopDone
    /\ Len(results) = 3
    /\ results[2].test_rmse = results[3].test_rmse
    /\ FloatLess(results[2].test_rmse, results[1].test_rmse)
    /\ best_model.name = "LightGBM"

\* C10: when the run completes a fitted pipeline of this run is on disk for
\* every model of the list, and best_model.joblib holds the fitted pipeline
\* of the model with the lowest test RMSE of this run.
C10_ArtifactsPersisted ==
    tpc = "done" =>
        /\ \A i \in 1..Len(models) :
              /\ files[ModelPath(models[i])] = results[i].pipeline
              /\ files[ModelPath(models[i])] = Pipeline(models[i], 1, results[i].test_rmse.v)
        /\ files[BestModelPath] = results[FirstLowest(results)].pipeline
        /\ files[BestModelPath] = files[ModelPath(models[FirstLowest(results)])]

\* a completed run over three models that replaced an earlier run's files
\* and whose best model is neither the first nor the last of the list
C10_Witness ==
    /\ tpc = "done"
    /\ Len(models) = 3
    /\ FirstLowest(results) = 2
    /\ files[BestModelPath] = Pipeline("LightGBM", 1, 0)
    /\ \A p \in Paths : files[p].run = 1

\* a file this run wrote
WrittenByRun(p) == files[p].kind # "absent" /\ files[p].run = 1

\* C11: when the loaded dataset lacks the target column the run ends with
\* ValueError before the split: it never gets past prepare_features, no
\* model is fitted, and no model file, metrics report or best-model file is
\* written by the run.
C11_TargetAbsentFailsEarly ==
    (env.dataExists /\ ~env.targetPresent) =>
        /\ tpc \in {"start", "loaded", "ValueError"}
        /\ models = <<>> /\ results = <<>> /\ best_model = None
        /\ mlflow = <<>>
        /\ \A p \in Paths : ~WrittenByRun(p)

\* the run has ended with ValueError, an earlier run's files still on disk
C11_Witness ==
    /\ tpc = "ValueError"
    /\ env.dataExists /\ ~env.targetPresent
    /\ files = StaleFiles

Families(ms) == {ms[i] : i \in 1..Len(ms)}
Unavailable(e) == {n \in {"LightGBM", "CatBoost"} : ~Imported(n, e)}

\* C12: when an optional family's library is unavailable the run never
\* ends on that account (NameError), the model list is RandomForest plus
\* the families that imported, and a completed run has trained, persisted
\* and reported each of them and persisted the best of them.
C12_MissingLibrarySkipped ==
    Unavailable(env) # {} =>
        /\ tpc # "NameError"
        /\ tpc \in {"loop", "summary", "done"} =>
              /\ Families(models) = {"RandomForest", "LightGBM", "CatBoost"} \ Unavailable(env)
              /\ Len(models) = Cardinality(Families(models))
        /\ tpc = "done" =>
              /\ Len(results) = Len(models)
              /\ \A i \in 1..Len(models) :
                    /\ results[i].name = models[i]
                    /\ files[ModelPath(models[i])] = results[i].pipeline
                    /\ WrittenByRun(ModelPath(models[i]))
                    /\ files[MetricsPath].report[i] = <<models[i], results[i].test_rmse>>
              /\ Len(files[MetricsPath].report) = Len(models)
              /\ \E i \in 1..Len(results) : best_model = results[i]
              /\ files[BestModelPath] = best_model.pipeline

\* a completed run without LightGBM: RandomForest and CatBoost trained
C12_Witness ==
    /\ tpc = "done"
    /\ ~env.LIGHTGBM_AVAILABLE /\ env.CATBOOST_AVAILABLE
    /\ models = <<"RandomForest", "CatBoost">>
    /\ best_model.name = "CatBoost"

------------------------------------------------------------------------------
(* Properties of the prediction service, checked under SpecApi.             *)

Answered(endpoint) == request.endpoint = endpoint /\ response.code = 200
Hours(p) == p.predicted_absenteeism_hours

\* v is the output out with the clamp applied: zero for a negative output,
\* the output itself otherwise
Clamped(v, out) ==
    /\ RLeq(Zero, v)
    /\ RLess(out, Zero) => v = Zero
    /\ RLeq(Zero, out) => v = out

\* the same for an answer of the service, which also rounds to hundredths:
\* a non-negative output comes back at most 0.005 away
ClampedRounded(v, out) ==
    /\ RLeq(Zero, v)
    /\ RLess(out, Zero) => v = Zero
    /\ RLeq(Zero, out) => 200 * Abs(v.n * out.d - out.n * v.d) <= v.d * out.d

\* C13: every value predict, predict_batch and modeling.predict return is
\* at least zero; a negative model output comes back as exactly zero, a
\* non-negative one as itself (rounded to hundredths by the service).
C13_NonNegative ==
    /\ Answered("predict") =>
          ClampedRounded(Hours(response.body), ModelPredict(model, called[1])[1])
    /\ Answered("predict_batch") =>
          \A i \in 1..Len(response.body.predictions) :
             ClampedRounded(Hours(response.body.predictions[i]),
                            ModelPredict(model, called[1])[i])
    /\ (request.endpoint = "modeling.predict" /\ response = Returned(response.body)) =>
          \A i \in 1..Len(response.body) :
             Clamped(response.body[i], ModelPredict(disk.artifact, called[1])[i])

\* a batch answer holding a zero for a negative output next to a positive
\* output kept
C13_Witness ==
    /\ Answered("predict_batch")
    /\ \E i, j \in 1..Len(response.body.predictions) :
          /\ RLess(ModelPredict(model, called[1])[i], Zero)
          /\ Hours(response.body.predictions[i]) = Zero
          /\ RLess(Zero, ModelPredict(model, called[1])[j])
          /\ Hours(response.body.predictions[j]) = ModelPredict(model, called[1])[j]

\* C14: the only prediction of predict_batch on the one-record list [r]
\* equals the prediction of predict on r, whichever of the two was called.
C14_BatchSingleConsistent ==
    /\ (Answered("predict_batch") /\ Len(request.inputs) = 1) =>
          /\ predict(model, disk, request.inputs[1]).response.code = 200
          /\ response.body.predictions[1]
               = predict(model, disk, request.inputs[1]).response.body
    /\ Answered("predict") =>
          /\ predict_batch(model, disk, request.inputs).response.code = 200
          /\ predict_batch(model, disk, request.inputs).response.body.predictions[1]
               = response.body

\* a one-record batch answered with 1.12 for the model output 1.125
C14_Witness ==
    /\ Answered("predict_batch")
    /\ Len(request.inputs) = 1
    /\ ModelPredict(model, called[1])[1] = Rat(9, 8)
    /\ Hours(response.body.predictions[1]) = Rat(112, 100)

\* C15: with a model loaded (one that predicts), predict_batch on a list
\* of n >= 0 valid records answers 200 with exactly n predictions, the i-th
\* being that of the i-th record, and total = n.
C15_BatchCountAndOrder ==
    (request.endpoint = "predict_batch" /\ BatchValid(request.inputs)
       /\ model # NoModel /\ CanPredict(model)) =>
        /\ response.code = 200
        /\ Len(response.body.predictions) = Len(request.inputs)
        /\ response.body.total = Len(request.inputs)
        /\ \A i \in 1..Len(request.inputs) :
              response.body.predictions[i]
                = predict(model, disk, request.inputs[i]).response.body

PredictionRequest == request.endpoint \in {"predict", "predict_batch"}

\* C16 as stated: with no model loaded every request to predict and
\* predict_batch is answered 503.
C16_AlwaysUnavailable ==
    (PredictionRequest /\ model = NoModel) => response.code = 503

\* C16 amended: with no model loaded, a request to predict or predict_batch
\* whose body passes validation is answered 503, one whose body fails
\* validation is answered 422; neither returns a prediction, calls a model
\* or ends the service.
C16_UnavailableWhenValid ==
    (PredictionRequest /\ model = NoModel) =>
        /\ response.code = IF BatchValid(request.inputs) THEN 503 ELSE 422
        /\ called = <<>>
        /\ apc = "serving"

\* no model loaded although the file exists: a valid batch is answered 503
C16_Witness ==
    /\ request.endpoint = "predict_batch"
    /\ Len(request.inputs) = 2
    /\ BatchValid(request.inputs)
    /\ model = NoModel
    /\ disk = Corrupt
    /\ response.code = 503

\* the declared range of a field in the data model: the categorical codes,
\* and non-negative numbers for the other fields
CodeRange(f) ==
    CASE f = "reason_for_absence" -> 0..28
      [] f = "month_of_absence" -> 0..12
      [] f = "day_of_the_week" -> 2..6
      [] f \in {"seasons", "education"} -> 1..4
      [] f \in {"disciplinary_failure", "social_drinker", "social_smoker"} -> 0..1

CodeFields == {"reason_for_absence", "month_of_absence", "day_of_the_week", "seasons",
               "education", "disciplinary_failure", "social_drinker", "social_smoker"}

InDataModelRange(f, v) ==
    IF f \in CodeFields THEN Denom(v) = 1 /\ Numer(v) \in CodeRange(f)
    ELSE Numer(v) >= 0

\* the ranges the service declares: those of the data model, and Hit target
\* at most 100
InServiceRange(f, v) ==
    /\ InDataModelRange(f, v)
    /\ f = "hit_target" => Numer(v) <= 100 * Denom(v)

AllWithin(inputs, InRange(_, _)) ==
    \A i \in 1..Len(inputs) : \A f \in Fields : InRange(f, inputs[i][f])

\* a request is turned away with a client error before any model is called
Rejected == response.code = 422 /\ called = <<>>

\* a request is accepted, and its records are passed to the loaded model
Accepted ==
    /\ response.code # 422
    /\ (model # NoModel /\ Len(request.inputs) >= 1) => called = <<BatchFrame(request.inputs)>>

\* C17 as stated: a request with a field outside the data model's range is
\* rejected before the model is called, one with every field inside it is
\* accepted and passed to the model.
C17_ValidatedAgainstDataModel ==
    PredictionRequest =>
        IF AllWithin(request.inputs, InDataModelRange) THEN Accepted ELSE Rejected

\* C17 amended: the same with the ranges the service declares, which are
\* the data model's with Hit target limited to at most 100 (integer fields
\* holding integers).
C17_ValidatedAgainstServiceRanges ==
    PredictionRequest =>
        IF AllWithin(request.inputs, InServiceRange) THEN Accepted ELSE Rejected

\* a batch of a valid record and one with Hit target = 101, sent to a
\* loaded model and rejected without a call of the model
C17_Witness ==
    /\ request.endpoint = "predict_batch"
    /\ Len(request.inputs) = 2
    /\ RecordValid(request.inputs[1])
    /\ request.inputs[2]["hit_target"] = IntCell(101)
    /\ model # NoModel
    /\ Rejected

Loaded == model # NoModel

\* C18: while the service runs health can be called; it answers 200 with
\* model_loaded true exactly when the global model is not None and with
\* status "healthy" exactly then.
C18_HealthReportsModel ==
    /\ apc = "serving" => ENABLED GetHealth
    /\ request.endpoint = "health" =>
          /\ response.code = 200
          /\ response.body.model_loaded = Loaded
          /\ response.body.status = "healthy" <=> Loaded

\* health answered while the file exists but no model could be loaded
C18_Witness ==
    /\ request.endpoint = "health"
    /\ disk = Corrupt
    /\ ~Loaded
    /\ response.body = [status |-> "model_not_loaded", model_loaded |-> FALSE]

Placeholders == {<<"Unknown - model structure not accessible">>,
                 <<"Unable to extract feature names">>}

\* C19: with a model loaded info answers 200 with the model path, the
\* model type and a feature list: the nineteen feature columns when the
\* model has a fitted preprocessor step, a one-entry placeholder when it
\* has none or reading it raises.
C19_InfoBestEffort ==
    (request.endpoint = "info" /\ Loaded) =>
        /\ response.code = 200
        /\ response.body.model_path = "models/best_model.joblib"
        /\ response.body.model_type = model.type
        /\ IF model.steps = "fitted"
           THEN /\ Len(response.body.features) = Cardinality(FeatureColumns)
                /\ {response.body.features[i] : i \in 1..Len(response.body.features)}
                      = FeatureColumns
           ELSE response.body.features \in Placeholders

\* info answered for a pipeline whose preprocessor cannot be read
C19_Witness ==
    /\ Answered("info")
    /\ model.steps = "unfitted"
    /\ response.body.features = <<"Unable to extract feature names">>

\* C20: startup_event never raises, whatever the file holds; after it the
\* global model is the artifact of the file when the load succeeded and
\* None otherwise, and the service runs (and so answers health).
C20_StartupBestEffort ==
    /\ apc # "crashed"
    /\ request.endpoint = "startup" =>
          /\ apc = "serving"
          /\ response # Raised
          /\ model = IF disk.state = "ok" THEN disk.artifact ELSE NoModel
          /\ ENABLED GetHealth

\* startup has run on a file that fails to load: the model is None and
\* the service runs
C20_Witness ==
    /\ request.endpoint = "startup"
    /\ disk = Corrupt
    /\ model = NoModel
    /\ apc = "serving"

\* the four request handlers of the running service
Handlers == {"health", "info", "predict", "predict_batch"}

\* C21: the global model is None or an artifact as joblib.load returned it
\* in every state; a step that answers a health, info, predict or
\* predict_batch request leaves it as it was; and a call of load_model that
\* raises leaves it as it was.
C21_ModelReadOnly ==
    /\ [](model \in {NoModel} \cup Artifacts)
    /\ [][request'.endpoint \in Handlers => (apc = "serving" /\ model' = model)]_vars
    /\ [][(request'.endpoint = "load_model" /\ response' = Raised) => model' = model]_vars

\* the running service holds a model, its file is gone, a call of
\* load_model has raised and the model is still held
C21_Witness ==
    /\ apc = "serving"
    /\ request.endpoint = "load_model"
    /\ response = Raised
    /\ disk = NoFile
    /\ model \in Artifacts

------------------------------------------------------------------------------
(* Further properties of the cleaning pipeline, checked under SpecClean.    *)

\* Pipeline.fit_transform(X) of a run no stage of which raises: the seven
\* transformers of create_preprocessing_pipeline composed in list order
fit_transform(X) ==
    Of(FinalIntConversion(Of(FillNaWithMedian(Of(WinsorizeIQR(
       Of(FixInvalidValues(Of(SafeRoundToInt(Of(StripObjectColumns(
          Of(DropColumns(X))))))))))))))

\* the column as stage 5 makes it of col: clipped to the fences of the
\* non-missing values of col, a missing cell left missing
ClippedFrom(col, out) ==
    /\ Len(out) = Len(col)
    /\ LET f == Fences(col)
       IN  \A i \in 1..Len(col) :
              IF IsNaN(col[i]) THEN IsNaN(out[i])
              ELSE out[i] = clip(col[i], f.lower, f.upper)

\* the column as stage 6 makes it of col: a missing cell holds the median
\* of the non-missing cells of col, the others are as in col
ImputedFrom(col, out) ==
    /\ Len(out) = Len(col)
    /\ LET median == Median(col)
       IN  \A i \in 1..Len(col) : out[i] = IF IsNaN(col[i]) THEN median ELSE col[i]

\* C22: a run applies the stages one at a time in list order, never one
\* twice; it has returned exactly when seven stages are applied, and what
\* it returns is drop columns, strip text, safe rounding, domain repair,
\* outlier clipping, median imputation, integer conversion composed in that
\* order on its input.  The column stage 5 leaves is clipped to the fences
\* of the column stage 4 left, missing cells still missing; the column
\* stage 6 leaves is the column stage 5 left with its own median imputed.
C22_SevenStagesInOrder ==
    /\ [](stage \in 0..NStages /\ (status = "done" <=> stage = NStages))
    /\ [](status = "done" => df = fit_transform(raw))
    /\ [](stage = 5 => \A c \in columns : ClippedFrom(repaired[c], df[c]))
    /\ [](stage = 6 => \A c \in columns :
              /\ ClippedFrom(repaired[c], prev[c])
              /\ ImputedFrom(prev[c], df[c]))
    /\ [][\/ stage' = stage + 1 /\ status = "running" /\ raw' = raw
          \/ stage' = stage /\ status' = "raised" /\ df' = df
          \/ stage = NStages /\ stage' = 0 /\ raw' = df]_vars

\* a returned run on a column with a missing value whose last cell would
\* have been clipped had the missing value been imputed before the fences
\* were computed
C22_Witness ==
    /\ status = "done"
    /\ pass = 1
    /\ raw["Age"] = <<Str(<<"?">>), IntCell(0), IntCell(0), IntCell(10)>>
    /\ df["Age"] = <<IntCell(0), IntCell(0), IntCell(0), IntCell(10)>>

\* the rows of a column that hold a value
Present(col) == {i \in 1..Len(col) : ~IsNaN(col[i])}
AllMissing(col) == Present(col) = {}

Below(col, m) == {i \in Present(col) : RLess(ValOf(col[i]), ValOf(m))}
Above(col, m) == {i \in Present(col) : RLess(ValOf(m), ValOf(col[i]))}

\* m lies midway between the largest value below it and the smallest above
Midway(col, m) ==
    \E i \in Below(col, m), j \in Above(col, m) :
        /\ \A k \in Below(col, m) : RLeq(ValOf(col[k]), ValOf(col[i]))
        /\ \A k \in Above(col, m) : RLeq(ValOf(col[j]), ValOf(col[k]))
        /\ RAdd(ValOf(m), ValOf(m)) = RAdd(ValOf(col[i]), ValOf(col[j]))

\* m is the median of the non-missing values of col: a value of col with
\* fewer than half of the values on either side, or the midpoint of the two
\* middle values when half of the values lie on either side
IsMedianOf(col, m) ==
    /\ IsNum(m)
    /\ LET n == Cardinality(Present(col))
           b == Cardinality(Below(col, m))
           a == Cardinality(Above(col, m))
       IN  \/ (\E i \in Present(col) : col[i] = m) /\ 2 * b < n /\ 2 * a < n
           \/ 2 * b = n /\ 2 * a = n /\ Midway(col, m)

\* C23: in the dataset stage 6 leaves, every cell that stage 5 left missing
\* holds the median of the non-missing values of its column as stage 5 left
\* it, every other cell is as stage 5 left it, and a column has a missing
\* cell only if stage 5 left all of its cells missing.
C23_MedianImputation ==
    stage = 6 =>
        \A c \in DOMAIN df :
            /\ Len(df[c]) = Len(prev[c])
            /\ \A i \in 1..Len(prev[c]) :
                  IF IsNaN(prev[c][i])
                  THEN IF AllMissing(prev[c]) THEN IsNaN(df[c][i])
                       ELSE IsMedianOf(prev[c], df[c][i])
                  ELSE df[c][i] = prev[c][i]
            /\ (\E i \in 1..Len(df[c]) : IsNaN(df[c][i])) => AllMissing(prev[c])

\* stage 6 has filled a missing cell of a column with two distinct values
\* with their midpoint
C23_Witness ==
    /\ stage = 6
    /\ prev["Age"] = <<NaN, IntCell(0), IntCell(10)>>
    /\ df["Age"] = <<IntCell(5), IntCell(0), IntCell(10)>>

\* the rows of a column stage 4 substitutes
OutOfDomain(col, c) == {i \in 1..Len(col) : ~InDomain(col[i], c)}

\* v is the smallest of the most frequent non-missing values of col
IsTopValue(col, v) ==
    /\ \E i \in Present(col) : col[i] = v
    /\ \A i \in Present(col) :
          \/ Count(col, col[i]) < Count(col, v)
          \/ Count(col, col[i]) = Count(col, v) /\ RLeq(ValOf(v), ValOf(col[i]))

\* the rows of col in the order perm
Reordered(col, perm) == [k \in 1..Len(col) |-> col[perm[k]]]

\* C24: in the dataset stage 4 leaves, all cells of a categorical column
\* that were out of domain when the stage started hold one value, the
\* other cells are untouched; that value is 0 (reason, month) or the
\* smallest most frequent value of the column as the stage received it; and
\* the stage computes the same value on every reordering of the rows.
C24_ReplacementFixedBeforeSubstitution ==
    stage = 4 =>
        \A c \in CategoricalCols :
            /\ \A i \in (1..Len(prev[c])) \ OutOfDomain(prev[c], c) : df[c][i] = prev[c][i]
            /\ \A i, j \in OutOfDomain(prev[c], c) : df[c][i] = df[c][j]
            /\ \A i \in OutOfDomain(prev[c], c) :
                  /\ IF c \in ZeroFilledCols THEN df[c][i] = IntCell(0)
                     ELSE IsTopValue(prev[c], df[c][i])
                  /\ \A perm \in Permutations(1..Len(prev[c])) :
                        Replacement(Reordered(prev[c], perm), c) = df[c][i]

\* stage 4 has given two out-of-domain cells, one missing and one above
\* the domain, the smaller of two equally frequent values, which comes
\* second in row order
C24_Witness ==
    /\ stage = 4
    /\ prev["Day of the week"] = <<NaN, IntCell(7), IntCell(6)>>
    /\ df["Day of the week"] = <<IntCell(6), IntCell(6), IntCell(6)>>

------------------------------------------------------------------------------
(* Properties of AbsenteeismCleaner.run, checked under SpecRun.             *)

\* C25: a run reads the raw file at most once, and only as its first step;
\* it writes the processed file at most once, only when all seven stages
\* have completed, and what it writes is the cleaned content of the raw
\* file; a run that returned has written it.  When the raw file is missing
\* the run ends with FileNotFoundError without reading, and when a stage
\* raises the run ends with that exception; in both cases the run is over
\* and the processed file is as it was.
C25_LoadCleanSaveOnce ==
    /\ [](rawfile.count <= 1 /\ processed.count <= 1)
    /\ [](processed.count = 1 =>
              /\ status = "returned" /\ stage = NStages /\ rawfile.count = 1
              /\ processed.exists
              /\ processed.data = fit_transform(rawfile.data))
    /\ [](status = "returned" => processed.count = 1)
    /\ [](status = "raised" =>
              /\ err # "none"
              /\ processed.count = 0
              /\ ~ENABLED RunNext)
    /\ [](~rawfile.exists =>
              /\ status \in {"start", "raised"}
              /\ rawfile.count = 0
              /\ status = "raised" => err = "FileNotFoundError")
    /\ [][rawfile' # rawfile => (status = "start" /\ rawfile'.data = rawfile.data)]_vars
    /\ [][processed' # processed =>
              (status = "done" /\ stage = NStages /\ status' = "returned")]_vars
    /\ [][status' = "raised" => processed' = processed]_vars

\* a run that read the raw file and ended with the exception of a stage
\* after earlier stages had completed, the processed file of an earlier run
\* still in place
C25_Witness ==
    /\ status = "raised"
    /\ rawfile.count = 1
    /\ stage >= 3
    /\ processed = StaleProcessed

------------------------------------------------------------------------------
(* Further properties of the training run, checked under SpecTrain.         *)

\* the files as they were before the run
BeforeRun(p) == files[p] \in {Absent, StaleFiles[p]}

\* C26: the results are those of the first models of the list, in list
\* order, and exactly their artifacts are written by the run; a step that
\* fits a model finds the artifacts of all earlier models written, writes
\* its own, and leaves the run in the loop whether or not MLflow logged
\* it; the metrics report is written only once every model of the list is
\* fitted and persisted, the best-model artifact only after the report; a
\* run ended by an error while fitting has left the report and the
\* best-model artifact as they were before the run.
C26_WriteOrder ==
    /\ [](/\ Len(results) <= Len(models)
          /\ \A i \in 1..Len(results) :
                /\ results[i].name = models[i]
                /\ files[ModelPath(models[i])] = results[i].pipeline
                /\ WrittenByRun(ModelPath(models[i]))
          /\ \A i \in (Len(results) + 1)..Len(models) : BeforeRun(ModelPath(models[i])))
    /\ [](WrittenByRun(MetricsPath) <=> tpc \in {"summary", "done"})
    /\ [](WrittenByRun(BestModelPath) <=> tpc = "done")
    /\ [](tpc \in {"summary", "done"} => (Len(models) > 0 /\ Len(results) = Len(models)))
    /\ [](tpc = "FitError" =>
              /\ Len(results) < Len(models)
              /\ BeforeRun(MetricsPath)
              /\ BeforeRun(BestModelPath))
    /\ [][tpc' = "FitError" => files' = files]_vars
    /\ [][Len(results') = Len(results) + 1 =>
              /\ tpc' = "loop"
              /\ files'[ModelPath(models[Len(results')])] # files[ModelPath(models[Len(results')])]
              /\ \A q \in Paths \ {ModelPath(models[Len(results')])} : files'[q] = files[q]
              /\ Len(mlflow') \in {Len(mlflow), Len(mlflow) + 1}]_vars
    /\ [][files'[MetricsPath] # files[MetricsPath] =>
              (tpc = "loop" /\ Len(results) = Len(models) /\ files'[BestModelPath] = files[BestModelPath])]_vars
    /\ [][files'[BestModelPath] # files[BestModelPath] =>
              (tpc = "summary" /\ WrittenByRun(MetricsPath))]_vars

\* fitting the third model failed after MLflow logging had failed for the
\* first two: their artifacts are written, the report and the best-model
\* artifact are those of the earlier run
C26_Witness ==
    /\ tpc = "FitError"
    /\ Len(results) = 2
    /\ mlflow = <<>>
    /\ WrittenByRun(ModelPath(models[1])) /\ WrittenByRun(ModelPath(models[2]))
    /\ files[MetricsPath] = StaleFiles[MetricsPath]
    /\ files[BestModelPath] = StaleFiles[BestModelPath]
    /\ files[ModelPath(models[3])] = StaleFiles[ModelPath(models[3])]

====
